---- MODULE Spec2Model ----
(***************************************************************************)
(* State-machine model of the conversation/session engine of               *)
(* llm_chat_client_pyqt6.py: the StreamWorker thread, the Qt signal queue  *)
(* that carries its events to the GUI thread, the GUI handlers that start  *)
(* turns and fold their outcome into the session, and the conversation     *)
(* store the handlers write.  SamplingSpec, StoreSpec and TitleSpec drive  *)
(* the settings functions, the store functions and the title rule over     *)
(* the same variables; RequestSpec starts with a conversation file of      *)
(* another author in the store, and ApplySpec takes apply_settings and the *)
(* worker's _create_args one statement at a time.                          *)
(*                                                                         *)
(* Text is a sequence of one-character strings, so that concatenation,     *)
(* slicing and stripping are computed as Python computes them.             *)
(***************************************************************************)
EXTENDS Integers, Sequences, FiniteSets, TLC

(***************************************************************************)
(* Bounds of the model.                                                    *)
(***************************************************************************)
MaxTurns == 2      \* turns started in one behaviour
MaxDeltas == 2     \* text deltas the backend yields in one stream
MaxLists == 2      \* list objects allocated (the initial one included)
MaxFiles == 3      \* conversation ids the direct calls of the store use

Turns == 1..MaxTurns
ListIds == 1..MaxLists
ConvIds == 1..MaxLists
StoreIds == 1..MaxFiles
\* the ticks of the clock while the store is called directly
MaxClock == MaxFiles

(***************************************************************************)
(* Program constants.                                                      *)
(***************************************************************************)
\* SYSTEM_PROMPT (its first sentence stands for the whole literal)
SYSTEM_PROMPT ==
    <<"Y","o","u"," ","a","r","e"," ","a"," ","h","e","l","p","f","u","l",
      " ","A","I"," ","a","s","s","i","s","t","a","n","t",".">>

NewChatTitle == <<"N","e","w"," ","C","h","a","t">>
EmptyResponse ==
    <<"(","E","m","p","t","y"," ","r","e","s","p","o","n","s","e",")">>
ApiErrorPrefix == <<"(","A","P","I"," ","e","r","r","o","r",":"," ">>
UntitledTitle == <<"U","n","t","i","t","l","e","d">>
TitleLen == 40
Ellipsis == <<".",".",".">>

Whitespace == {" ", "\t", "\n", "\r"}

(***************************************************************************)
(* Inputs.                                                                 *)
(***************************************************************************)
\* what the user may have typed when send_message runs
InputTexts == { <<" ">>, <<" ","h","i">> }
\* the backend's text_stream: its k-th delta, if the stream gets that far (a
\* stream ends, or raises, after any number of deltas up to MaxDeltas)
DeltasAt(k) ==
    IF k = 1 THEN { <<"H","e","l">> }
    ELSE IF k = 2 THEN { <<"l","o">> }
    ELSE { <<"!">> }
\* exceptions the backend call raises: type(e).__name__ and str(e)
Exceptions ==
    { [name |-> <<"A","P","I","E","r","r","o","r">>, text |-> <<"b","o","o","m">>] }

NoExc == [name |-> <<>>, text |-> <<>>]
NoId == 0

(***************************************************************************)
(* Pure helpers.                                                           *)
(***************************************************************************)
Msg(role, content) == [role |-> role, content |-> content]

RECURSIVE LStrip(_)
LStrip(s) ==
    IF s # <<>> /\ Head(s) \in Whitespace THEN LStrip(Tail(s)) ELSE s

RECURSIVE RStrip(_)
RStrip(s) ==
    IF s # <<>> /\ s[Len(s)] \in Whitespace
    THEN RStrip(SubSeq(s, 1, Len(s) - 1))
    ELSE s

\* str.strip()
Strip(s) == RStrip(LStrip(s))

\* s[:n]
Prefix(s, n) == SubSeq(s, 1, IF Len(s) < n THEN Len(s) ELSE n)

RECURSIVE JoinNL(_)
\* "\n".join(parts)
JoinNL(parts) ==
    IF parts = <<>> THEN <<>>
    ELSE IF Len(parts) = 1 THEN Head(parts)
    ELSE Head(parts) \o <<"\n">> \o JoinNL(Tail(parts))

RECURSIVE ContentsOf(_, _)
\* [m["content"] for m in msgs if m["role"] in roles]
ContentsOf(msgs, roles) ==
    IF msgs = <<>> THEN <<>>
    ELSE IF Head(msgs).role \in roles
         THEN <<Head(msgs).content>> \o ContentsOf(Tail(msgs), roles)
         ELSE ContentsOf(Tail(msgs), roles)

RECURSIVE FilterRoles(_, _)
\* [m for m in msgs if m["role"] in roles]
FilterRoles(msgs, roles) ==
    IF msgs = <<>> THEN <<>>
    ELSE IF Head(msgs).role \in roles
         THEN <<Head(msgs)>> \o FilterRoles(Tail(msgs), roles)
         ELSE FilterRoles(Tail(msgs), roles)

\* the system prompt StreamWorker.run builds
SystemOf(msgs) ==
    LET joined == JoinNL(ContentsOf(msgs, {"system"}))
    IN  IF joined = <<>> THEN SYSTEM_PROMPT ELSE joined

\* variant: the messages are passed on without filtering by role
ConvoOfUnfiltered(msgs) == msgs

\* the history StreamWorker.run builds
ConvoOf(msgs) == FilterRoles(msgs, {"user", "assistant"})

\* variant: the first 40 characters are not stripped
GetConversationTitleNoStrip(msgs) ==
    LET users == ContentsOf(msgs, {"user"})
    IN  IF users = <<>> THEN NewChatTitle
        ELSE LET content == Head(users)
                 cut == Prefix(content, TitleLen)
                 title == IF Len(content) > TitleLen THEN cut \o Ellipsis ELSE cut
             IN  IF title = <<>> THEN NewChatTitle ELSE title

\* get_conversation_title
GetConversationTitle(msgs) ==
    LET users == ContentsOf(msgs, {"user"})
    IN  IF users = <<>> THEN NewChatTitle
        ELSE LET content == Head(users)
                 cut == Strip(Prefix(content, TitleLen))
                 title == IF Len(content) > TitleLen THEN cut \o Ellipsis ELSE cut
             IN  IF title = <<>> THEN NewChatTitle ELSE title

\* f"(API error: {type(e).__name__}: {e})"
ErrorMsg(e) == ApiErrorPrefix \o e.name \o <<":", " ">> \o e.text \o <<")">>

(***************************************************************************)
(* JSON text and timestamps, as the conversation files hold them.          *)
(***************************************************************************)
\* a character outside ASCII, e-acute, written as the name of its code point
EAcute == "U+00E9"

\* the characters json.dump writes as an escape, each with its escape
JsonEscapes ==
    [c \in {"\"", "\\", "\n", "\r", "\t", EAcute} |->
        CASE c = "\"" -> <<"\\", "\"">>
          [] c = "\\" -> <<"\\", "\\">>
          [] c = "\n" -> <<"\\", "n">>
          [] c = "\r" -> <<"\\", "r">>
          [] c = "\t" -> <<"\\", "t">>
          [] c = EAcute -> <<"\\", "u", "0", "0", "e", "9">>]

\* json.dump of one character of a str (ensure_ascii is the default)
JsonEscape(c) == IF c \in DOMAIN JsonEscapes THEN JsonEscapes[c] ELSE <<c>>

RECURSIVE JsonEscapeAll(_)
JsonEscapeAll(s) ==
    IF s = <<>> THEN <<>> ELSE JsonEscape(Head(s)) \o JsonEscapeAll(Tail(s))

\* variant: the characters are written without escaping
JsonDumpStrRaw(s) == <<"\"">> \o s \o <<"\"">>

\* json.dump of a str: the JSON string literal
JsonDumpStr(s) == <<"\"">> \o JsonEscapeAll(s) \o <<"\"">>

\* the character a \uXXXX escape stands for
CodePoint(hex) == IF hex = <<"0", "0", "e", "9">> THEN EAcute ELSE "?"

RECURSIVE JsonUnescape(_)
JsonUnescape(e) ==
    IF e = <<>> THEN <<>>
    ELSE IF Head(e) # "\\" \/ Len(e) = 1
         THEN <<Head(e)>> \o JsonUnescape(Tail(e))
    ELSE IF e[2] = "u"
         THEN <<CodePoint(SubSeq(e, 3, 6))>> \o JsonUnescape(SubSeq(e, 7, Len(e)))
    ELSE <<CASE e[2] = "n" -> "\n"
             [] e[2] = "r" -> "\r"
             [] e[2] = "t" -> "\t"
             [] OTHER -> e[2]>> \o JsonUnescape(SubSeq(e, 3, Len(e)))

\* json.load of a JSON string literal
JsonLoadStr(e) == JsonUnescape(SubSeq(e, 2, Len(e) - 1))

Digits == <<"0", "1", "2", "3", "4", "5", "6", "7", "8", "9">>
TwoDigits(n) == <<Digits[(n \div 10) + 1], Digits[(n % 10) + 1]>>

\* datetime.isoformat() of the instant of tick k, two ticks to the second: the
\* seconds, then the microseconds unless they are zero (the date, the hour and
\* the minute, the same at every tick, are left out)
IsoFormat(k) ==
    TwoDigits(k \div 2)
    \o (IF k % 2 = 0 THEN <<>> ELSE <<".", "5", "0", "0", "0", "0", "0">>)

\* ord(c), for the characters of a timestamp
Ord(c) == IF c = "." THEN 46 ELSE 47 + (CHOOSE i \in 1..10 : Digits[i] = c)

RECURSIVE StrLt(_, _)
\* a < b on str: by code point, a proper prefix first
StrLt(a, b) ==
    IF b = <<>> THEN FALSE
    ELSE IF a = <<>> THEN TRUE
    ELSE IF Head(a) = Head(b) THEN StrLt(Tail(a), Tail(b))
    ELSE Ord(Head(a)) < Ord(Head(b))

(***************************************************************************)
(* Sampling values.  A number is held in hundredths (0.9 is 90), which is  *)
(* exact for every value a slider of the settings dialog yields; the other *)
(* kinds are what a settings file may hold in a number's place.            *)
(***************************************************************************)
None == [kind |-> "none", v |-> 0]
Num(n) == [kind |-> "num", v |-> n]
\* float("nan"), which json.load yields for the token NaN
NaN == [kind |-> "nan", v |-> 0]
\* a string float() rejects, such as "hot"
NonNumeric == [kind |-> "str", v |-> 0]
\* a string float() accepts, such as "0.5"
NumStr(n) == [kind |-> "numstr", v |-> n]
\* the key is not in the dict
Absent == [kind |-> "absent", v |-> 0]

DEFAULT_TEMPERATURE == Num(90)
DEFAULT_TOP_P == None
DEFAULT_SAMPLING_MODE == "temperature"
MODEL == "claude-sonnet-4-20250514"
MAX_TOKENS == 4096

\* float(x) raises (ValueError for the string, TypeError for None)
FloatRaises(x) == x.kind \in {"str", "none"}

\* float(x), where it does not raise
Float(x) == IF x.kind = "numstr" THEN Num(x.v) ELSE x

\* a < b on floats: False whenever one side is NaN
Lt(a, b) == a.kind = "num" /\ b.kind = "num" /\ a.v < b.v

\* min(a, b): b if b < a, else a
PyMin(a, b) == IF Lt(b, a) THEN b ELSE a

\* max(a, b): b if b > a, else a
PyMax(a, b) == IF Lt(a, b) THEN b ELSE a

\* variant: the upper limit is not applied
ClampNoUpper(x, lo, hi) ==
    IF FloatRaises(x) THEN None ELSE PyMax(Num(lo), Float(x))

\* clamp, local to _sanitize_sampling
Clamp(x, lo, hi) ==
    IF FloatRaises(x) THEN None ELSE PyMax(Num(lo), PyMin(Num(hi), Float(x)))

\* variant: top_p is kept when a temperature is present
SanitizeSamplingKeepsBoth(temperature, top_p) ==
    [t |-> IF temperature # None THEN Clamp(temperature, 0, 100) ELSE None,
     p |-> IF top_p # None THEN Clamp(top_p, 0, 100) ELSE None]

\* _sanitize_sampling(temperature, top_p): the pair (t, p)
SanitizeSampling(temperature, top_p) ==
    LET t == IF temperature # None THEN Clamp(temperature, 0, 100) ELSE None
        p == IF top_p # None THEN Clamp(top_p, 0, 100) ELSE None
    IN  [t |-> t, p |-> IF t # None /\ p # None THEN None ELSE p]

(***************************************************************************)
(* State.                                                                  *)
(***************************************************************************)
VARIABLES
    heap,                        \* the list objects: list id -> its messages
    nLists,                      \* list objects allocated so far
    messages,                    \* global messages: the list it refers to
    current_conversation_id,     \* global
    current_conversation_title,  \* global
    nIds,                        \* conversation ids generated so far
    store,                       \* CONVERSATIONS_DIR: conversation id -> record
    clock,                       \* datetime.now(), as a logical clock
    inputEnabled,                \* input_text / send_btn / clear_btn enabled
    self_worker,                 \* self.worker: the turn of the latest worker
    workers,                     \* the StreamWorker threads, by turn
    nTurns,                      \* workers started so far
    queue,                       \* queued signal deliveries to the GUI thread
    base,                        \* history: the list as it was at send_message
    startedOn,                   \* history: the conversation id at send_message
    produced,                    \* history: deltas the backend yielded, by turn
    emitted,                     \* history: signals the worker emitted, by turn
    observed,                    \* history: signals the GUI slots ran, by turn
    handledLog,                  \* history: terminal signals handled, in order
    current_temperature,         \* global
    current_top_p,               \* global
    current_sampling_mode,       \* global
    settings_file,               \* SETTINGS_FILE: what the file holds
    dialog,                      \* SettingsDialog: the position of apply_settings
    ret,                         \* the outcome of the latest direct call
    saved                        \* history: what a direct save last wrote, by id

vars ==
    <<heap, nLists, messages, current_conversation_id,
      current_conversation_title, nIds, store, clock, inputEnabled,
      self_worker, workers, nTurns, queue, base, startedOn, produced, emitted, observed,
      handledLog, current_temperature, current_top_p, current_sampling_mode,
      settings_file, dialog, ret, saved>>

\* the chat session, its worker threads and the histories
chatVars ==
    <<heap, nLists, messages, current_conversation_id,
      current_conversation_title, nIds, store, clock, inputEnabled,
      self_worker, workers, nTurns, queue, base, startedOn, produced, emitted, observed,
      handledLog>>

\* the chat session without the store and the clock
guiVars ==
    <<heap, nLists, messages, current_conversation_id,
      current_conversation_title, nIds, inputEnabled, self_worker, workers,
      nTurns, queue, base, startedOn, produced, emitted, observed, handledLog>>

\* the sampling globals and the settings file
samplingVars ==
    <<current_temperature, current_top_p, current_sampling_mode,
      settings_file, dialog>>

\* what only the settings dialog and direct calls write: the sampling globals,
\* the settings file, and the outcome and the history of direct calls
directVars ==
    <<current_temperature, current_top_p, current_sampling_mode,
      settings_file, dialog, ret, saved>>

sessionVars ==
    <<heap, nLists, messages, current_conversation_id,
      current_conversation_title, nIds, store, clock, inputEnabled,
      directVars>>

\* CONVERSATIONS_DIR has no file for the id
NoRecord ==
    [kind |-> "missing", id |-> NoId, title |-> <<>>, messages |-> <<>>,
     timestamp |-> <<>>]

\* a history entry for an id no direct save has written
NoConv == [title |-> <<>>, messages |-> <<>>]

\* no direct call has been made (repeat: the call is the same as the one
\* before it)
NoRet ==
    [fn |-> "", args |-> <<>>, raised |-> "", value |-> <<>>, repeat |-> FALSE]

\* SETTINGS_FILE does not exist
NoSettingsFile ==
    [kind |-> "missing", temperature |-> Absent, top_p |-> Absent,
     sampling_mode |-> ""]

\* _create_args(model_name, system, convo): the kwargs of the request, where a
\* key the dict does not have is Absent
CreateArgs(model_name, system, convo) ==
    LET temp == IF current_sampling_mode = "temperature"
                THEN current_temperature ELSE None
        top_p_val == IF current_sampling_mode = "top_p"
                     THEN current_top_p ELSE None
        s == SanitizeSampling(temp, top_p_val)
    IN  [model |-> model_name, system |-> system, messages |-> convo,
         max_tokens |-> MAX_TOKENS,
         temperature |-> IF s.t # None THEN s.t ELSE Absent,
         top_p |-> IF s.t = None /\ s.p # None THEN s.p ELSE Absent]

NoKwargs ==
    [model |-> "", system |-> <<>>, messages |-> <<>>, max_tokens |-> 0,
     temperature |-> Absent, top_p |-> Absent]

\* no StreamWorker (temp: the local of _create_args; snapshots: history, the
\* complete sampling configurations in force while the request was built)
NoWorker ==
    [pc |-> "none", user_text |-> <<>>, messages_list |-> 0, out |-> <<>>,
     kwargs |-> NoKwargs, exc |-> NoExc, temp |-> None, snapshots |-> {}]

\* no apply_settings is in progress (before: history, the configuration the
\* latest Apply found)
NoConfig == [mode |-> "", temperature |-> None, top_p |-> None]
NoDialog ==
    [pc |-> "closed", temp_checked |-> TRUE, temp_slider |-> 0,
     top_p_slider |-> 0, before |-> NoConfig]

\* LLMChatClient.__init__ on a first run, the settings apart: a fresh id, the
\* title "New Chat", a fresh list holding the system prompt, input enabled, no
\* worker
FreshSession ==
    /\ heap = [l \in ListIds |->
                 IF l = 1 THEN <<Msg("system", SYSTEM_PROMPT)>> ELSE <<>>]
    /\ nLists = 1
    /\ messages = 1
    /\ current_conversation_id = 1
    /\ current_conversation_title = NewChatTitle
    /\ nIds = 1
    /\ clock = 1
    /\ inputEnabled = TRUE
    /\ self_worker = 0
    /\ workers = [t \in Turns |-> NoWorker]
    /\ nTurns = 0
    /\ queue = <<>>
    /\ base = [t \in Turns |-> <<>>]
    /\ startedOn = [t \in Turns |-> NoId]
    /\ produced = [t \in Turns |-> <<>>]
    /\ emitted = [t \in Turns |-> <<>>]
    /\ observed = [t \in Turns |-> <<>>]
    /\ handledLog = <<>>
    /\ dialog = NoDialog

\* no direct call has been made
NoCalls ==
    /\ ret = NoRet
    /\ saved = <<>>

\* the module globals as the import leaves them (lines 49-51)
DefaultSettings ==
    /\ current_temperature = DEFAULT_TEMPERATURE
    /\ current_top_p = DEFAULT_TOP_P
    /\ current_sampling_mode = DEFAULT_SAMPLING_MODE

\* LLMChatClient.__init__ on a first run: the fresh session and, there being
\* no settings file, the default settings
Init ==
    /\ FreshSession
    /\ store = [c \in ConvIds |-> NoRecord]
    /\ DefaultSettings
    /\ settings_file = NoSettingsFile
    /\ NoCalls

(***************************************************************************)
(* GUI thread: send_message.                                               *)
(***************************************************************************)
\* the worker object self.worker referred to is dropped once its thread is over
Dropped(t) == t = self_worker /\ workers[t].pc = "done"

\* variant: the input and the send button are left enabled
DisableInputForgotten == inputEnabled' = inputEnabled

\* input_text.setEnabled(False); send_btn.setEnabled(False); ...
DisableInput == inputEnabled' = FALSE

\* self.worker = StreamWorker(text, messages); connect; self.worker.start()
StartWorker(text) ==
    LET t == nTurns + 1
    IN  /\ nTurns' = t
        /\ self_worker' = t
        /\ workers' = [w \in Turns |->
                         IF w = t
                         THEN [NoWorker EXCEPT !.pc = "start",
                                               !.user_text = text,
                                               !.messages_list = messages]
                         ELSE IF Dropped(w) THEN NoWorker ELSE workers[w]]
        /\ base' = [w \in Turns |->
                      IF w = t THEN heap[messages]
                      ELSE IF Dropped(w) THEN <<>> ELSE base[w]]
        /\ startedOn' = [w \in Turns |->
                           IF w = t THEN current_conversation_id
                           ELSE IF Dropped(w) THEN NoId ELSE startedOn[w]]
        /\ produced' = [w \in Turns |->
                          IF w = t \/ Dropped(w) THEN <<>> ELSE produced[w]]
        /\ emitted' = [w \in Turns |->
                         IF w = t \/ Dropped(w) THEN <<>> ELSE emitted[w]]
        /\ observed' = [w \in Turns |->
                          IF w = t \/ Dropped(w) THEN <<>> ELSE observed[w]]

\* send_message, reachable only while the input and the send button are enabled
SendMessage(input) ==
    /\ inputEnabled
    /\ LET text == Strip(input)
       IN  IF text = <<>>
           THEN UNCHANGED vars
           ELSE /\ nTurns < MaxTurns
                /\ StartWorker(text)
                /\ DisableInput
                /\ UNCHANGED <<heap, nLists, messages, current_conversation_id,
                               current_conversation_title, nIds, store, clock,
                               queue, handledLog, directVars>>

(***************************************************************************)
(* Worker thread: StreamWorker.run.                                        *)
(***************************************************************************)
\* variant: the newest signal is delivered first
EmitPrepend(t, sig, arg) ==
    /\ queue' = <<[sig |-> sig, arg |-> arg, turn |-> t]>> \o queue
    /\ emitted' = [emitted EXCEPT ![t] = Append(@, [sig |-> sig, arg |-> arg])]

\* signal.emit(arg) from the worker thread: a queued delivery to the GUI thread
Emit(t, sig, arg) ==
    /\ queue' = Append(queue, [sig |-> sig, arg |-> arg, turn |-> t])
    /\ emitted' = [emitted EXCEPT ![t] = Append(@, [sig |-> sig, arg |-> arg])]

\* variant: the request is built without recording the user message
WorkerRunNoAppend(t) ==
    /\ workers[t].pc = "start"
    /\ LET l == workers[t].messages_list
           now == Append(heap[l], Msg("user", workers[t].user_text))
       IN  workers' = [workers EXCEPT
                         ![t].pc = "call",
                         ![t].kwargs = CreateArgs(MODEL, SystemOf(now),
                                                  ConvoOf(now)),
                         ![t].out = <<>>]
    /\ UNCHANGED <<sessionVars, self_worker, nTurns, queue, base, startedOn, produced,
                   emitted, observed, handledLog>>

\* variant: the file of the current conversation shows the append at once, as
\* if the store held the list itself
WorkerRunWriteThrough(t) ==
    /\ workers[t].pc = "start"
    /\ LET l == workers[t].messages_list
           now == Append(heap[l], Msg("user", workers[t].user_text))
           file == store[current_conversation_id]
       IN  /\ heap' = [heap EXCEPT ![l] = now]
           /\ workers' = [workers EXCEPT
                            ![t].pc = "call",
                            ![t].kwargs = CreateArgs(MODEL, SystemOf(now),
                                                     ConvoOf(now)),
                            ![t].out = <<>>]
           /\ store' = IF file.kind = "object"
                       THEN [store EXCEPT ![current_conversation_id].messages =
                               Append(@, [role |-> "user",
                                          content |->
                                            JsonDumpStr(workers[t].user_text)])]
                       ELSE store
    /\ UNCHANGED <<directVars, nLists, messages, current_conversation_id,
                   current_conversation_title, nIds, clock, inputEnabled,
                   self_worker, nTurns, queue, base, startedOn, produced, emitted,
                   observed, handledLog>>

\* lines 277-282: append the user message, build system, convo and kwargs
WorkerRun(t) ==
    /\ workers[t].pc = "start"
    /\ LET l == workers[t].messages_list
           now == Append(heap[l], Msg("user", workers[t].user_text))
       IN  /\ heap' = [heap EXCEPT ![l] = now]
           /\ workers' = [workers EXCEPT
                            ![t].pc = "call",
                            ![t].kwargs = CreateArgs(MODEL, SystemOf(now),
                                                     ConvoOf(now)),
                            ![t].out = <<>>]
    /\ UNCHANGED <<directVars, nLists, messages, current_conversation_id,
                   current_conversation_title, nIds, store, clock,
                   inputEnabled, self_worker, nTurns, queue, base, startedOn, produced,
                   emitted, observed, handledLog>>

\* line 284: client.messages.stream(**kwargs) is entered
StreamOpen(t) ==
    /\ workers[t].pc = "call"
    /\ workers' = [workers EXCEPT ![t].pc = "stream"]
    /\ UNCHANGED <<sessionVars, self_worker, nTurns, queue, base, startedOn, produced,
                   emitted, observed, handledLog>>

\* variant: the accumulated text is relayed instead of the delta
StreamDeltaEmitsOut(t, d) ==
    /\ workers[t].pc = "stream"
    /\ Len(produced[t]) < MaxDeltas
    /\ produced' = [produced EXCEPT ![t] = Append(@, d)]
    /\ workers' = [workers EXCEPT ![t].out = @ \o d]
    /\ Emit(t, "text_chunk", workers[t].out \o d)
    /\ UNCHANGED <<sessionVars, self_worker, nTurns, base, startedOn, observed,
                   handledLog>>

\* lines 285-287: the stream yields a delta; out += text; text_chunk.emit(text)
StreamDelta(t, d) ==
    /\ workers[t].pc = "stream"
    /\ Len(produced[t]) < MaxDeltas
    /\ produced' = [produced EXCEPT ![t] = Append(@, d)]
    /\ workers' = [workers EXCEPT ![t].out = @ \o d]
    /\ Emit(t, "text_chunk", d)
    /\ UNCHANGED <<sessionVars, self_worker, nTurns, base, startedOn, observed,
                   handledLog>>

\* the stream ends and the with block is left normally
StreamEnd(t) ==
    /\ workers[t].pc = "stream"
    /\ workers' = [workers EXCEPT ![t].pc = "finalize"]
    /\ UNCHANGED <<sessionVars, self_worker, nTurns, queue, base, startedOn, produced,
                   emitted, observed, handledLog>>

\* lines 284-287 raise: entering the stream, a read of it, or leaving it
StreamRaise(t, e) ==
    /\ workers[t].pc \in {"call", "stream"}
    /\ workers' = [workers EXCEPT ![t].pc = "failed", ![t].exc = e]
    /\ UNCHANGED <<sessionVars, self_worker, nTurns, queue, base, startedOn, produced,
                   emitted, observed, handledLog>>

\* variant: an empty accumulator is appended and emitted as it is
FinalizeNoPlaceholder(t) ==
    /\ workers[t].pc = "finalize"
    /\ LET l == workers[t].messages_list
           out == workers[t].out
       IN  /\ heap' = [heap EXCEPT ![l] = Append(@, Msg("assistant", out))]
           /\ workers' = [workers EXCEPT ![t].pc = "done"]
           /\ Emit(t, "finished", out)
    /\ UNCHANGED <<directVars, nLists, messages, current_conversation_id,
                   current_conversation_title, nIds, store, clock,
                   inputEnabled, self_worker, nTurns, base, startedOn, produced, observed,
                   handledLog>>

\* variant: finished is emitted without the assistant message being appended
FinalizeNoAppend(t) ==
    /\ workers[t].pc = "finalize"
    /\ LET out == IF workers[t].out = <<>> THEN EmptyResponse
                  ELSE workers[t].out
       IN  /\ workers' = [workers EXCEPT ![t].pc = "done", ![t].out = out]
           /\ Emit(t, "finished", out)
    /\ UNCHANGED <<sessionVars, self_worker, nTurns, base, startedOn, produced,
                   observed, handledLog>>

\* lines 289-293: placeholder, append the assistant message, finished.emit(out)
Finalize(t) ==
    /\ workers[t].pc = "finalize"
    /\ LET l == workers[t].messages_list
           out == IF workers[t].out = <<>> THEN EmptyResponse
                  ELSE workers[t].out
       IN  /\ heap' = [heap EXCEPT ![l] = Append(@, Msg("assistant", out))]
           /\ workers' = [workers EXCEPT ![t].pc = "done", ![t].out = out]
           /\ Emit(t, "finished", out)
    /\ UNCHANGED <<directVars, nLists, messages, current_conversation_id,
                   current_conversation_title, nIds, store, clock,
                   inputEnabled, self_worker, nTurns, base, startedOn, produced, observed,
                   handledLog>>

\* variant: the except block swallows the exception without a signal
HandleExceptionSilent(t) ==
    /\ workers[t].pc = "failed"
    /\ LET l == workers[t].messages_list
           error_msg == ErrorMsg(workers[t].exc)
       IN  /\ heap' = [heap EXCEPT ![l] = Append(@, Msg("assistant", error_msg))]
           /\ workers' = [workers EXCEPT ![t].pc = "done"]
    /\ UNCHANGED <<directVars, nLists, messages, current_conversation_id,
                   current_conversation_title, nIds, store, clock,
                   inputEnabled, self_worker, nTurns, queue, base, startedOn, produced,
                   emitted, observed, handledLog>>

\* variant: the except block emits the error without appending a message
HandleExceptionNoAppend(t) ==
    /\ workers[t].pc = "failed"
    /\ workers' = [workers EXCEPT ![t].pc = "done"]
    /\ Emit(t, "error", ErrorMsg(workers[t].exc))
    /\ UNCHANGED <<sessionVars, self_worker, nTurns, base, startedOn, produced, observed,
                   handledLog>>

\* variant: the except block keeps the partial text as the assistant message
HandleExceptionPartial(t) ==
    /\ workers[t].pc = "failed"
    /\ LET l == workers[t].messages_list
           error_msg == ErrorMsg(workers[t].exc)
       IN  /\ heap' = [heap EXCEPT ![l] =
                          Append(@, Msg("assistant", workers[t].out))]
           /\ workers' = [workers EXCEPT ![t].pc = "done"]
           /\ Emit(t, "error", error_msg)
    /\ UNCHANGED <<directVars, nLists, messages, current_conversation_id,
                   current_conversation_title, nIds, store, clock,
                   inputEnabled, self_worker, nTurns, base, startedOn, produced, observed,
                   handledLog>>

\* variant: after reporting the error the worker goes back to reading the stream
HandleExceptionResume(t) ==
    /\ workers[t].pc = "failed"
    /\ LET l == workers[t].messages_list
           error_msg == ErrorMsg(workers[t].exc)
       IN  /\ heap' = [heap EXCEPT ![l] = Append(@, Msg("assistant", error_msg))]
           /\ workers' = [workers EXCEPT ![t].pc = "stream"]
           /\ Emit(t, "error", error_msg)
    /\ UNCHANGED <<directVars, nLists, messages, current_conversation_id,
                   current_conversation_title, nIds, store, clock,
                   inputEnabled, self_worker, nTurns, base, startedOn, produced, observed,
                   handledLog>>

\* lines 295-298: the except block
HandleException(t) ==
    /\ workers[t].pc = "failed"
    /\ LET l == workers[t].messages_list
           error_msg == ErrorMsg(workers[t].exc)
       IN  /\ heap' = [heap EXCEPT ![l] = Append(@, Msg("assistant", error_msg))]
           /\ workers' = [workers EXCEPT ![t].pc = "done"]
           /\ Emit(t, "error", error_msg)
    /\ UNCHANGED <<directVars, nLists, messages, current_conversation_id,
                   current_conversation_title, nIds, store, clock,
                   inputEnabled, self_worker, nTurns, base, startedOn, produced, observed,
                   handledLog>>

WorkerStep(t) ==
    \/ WorkerRun(t)
    \/ StreamOpen(t)
    \/ \E d \in DeltasAt(Len(produced[t]) + 1) : StreamDelta(t, d)
    \/ StreamEnd(t)
    \/ \E e \in Exceptions : StreamRaise(t, e)
    \/ Finalize(t)
    \/ HandleException(t)

(***************************************************************************)
(* GUI thread: the slots the worker's signals are connected to.            *)
(***************************************************************************)
\* a slot has run in the GUI thread for the head of the queue
Observe(e) ==
    observed' = [observed EXCEPT ![e.turn] =
                    Append(@, [sig |-> e.sig, arg |-> e.arg])]

RECURSIVE JsonDumpMsgs(_)
\* json.dump of the list of messages
JsonDumpMsgs(msgs) ==
    IF msgs = <<>> THEN <<>>
    ELSE <<[role |-> Head(msgs).role,
            content |-> JsonDumpStr(Head(msgs).content)]>>
         \o JsonDumpMsgs(Tail(msgs))

RECURSIVE JsonLoadMsgs(_)
\* json.load of the list of messages
JsonLoadMsgs(msgs) ==
    IF msgs = <<>> THEN <<>>
    ELSE <<[role |-> Head(msgs).role,
            content |-> JsonLoadStr(Head(msgs).content)]>>
         \o JsonLoadMsgs(Tail(msgs))

\* json.dump(data, f): the JSON object of a conversation
JsonDump(data) ==
    [kind |-> "object", id |-> data.id, title |-> JsonDumpStr(data.title),
     messages |-> JsonDumpMsgs(data.messages),
     timestamp |-> JsonDumpStr(data.timestamp)]

\* a file that is not JSON (a write cut short), one that holds the JSON array
\* [], and the Python values None and []
GarbledRecord == [NoRecord EXCEPT !.kind = "garbage"]
ArrayRecord == [NoRecord EXCEPT !.kind = "array"]
NoneValue == [NoRecord EXCEPT !.kind = "none"]
EmptyList == [NoRecord EXCEPT !.kind = "list"]

\* json.load(f) of a file that parses: the dict of a conversation, or []
JsonLoad(file) ==
    IF file.kind = "object"
    THEN [kind |-> "dict", id |-> file.id, title |-> JsonLoadStr(file.title),
          messages |-> JsonLoadMsgs(file.messages),
          timestamp |-> JsonLoadStr(file.timestamp)]
    ELSE EmptyList

\* variant: the file is opened for appending, so that a second save leaves two
\* JSON documents in it
SaveConversationAppendMode(st, conv_id, title, msgs) ==
    IF conv_id = NoId THEN st
    ELSE IF st[conv_id].kind # "missing"
         THEN [st EXCEPT ![conv_id] = GarbledRecord]
    ELSE [st EXCEPT ![conv_id] =
            JsonDump([id |-> conv_id, title |-> title, messages |-> msgs,
                      timestamp |-> IsoFormat(clock)])]

\* save_conversation(conv_id, title, msgs): the file of the id is overwritten
\* with the JSON text of the record, stamped with the current time
SaveConversation(st, conv_id, title, msgs) ==
    IF conv_id = NoId THEN st
    ELSE [st EXCEPT ![conv_id] =
            JsonDump([id |-> conv_id, title |-> title, messages |-> msgs,
                      timestamp |-> IsoFormat(clock)])]

\* load_conversation(conv_id): None without a file, else json.load of it
LoadConversation(st, conv_id) ==
    LET file == st[conv_id]
    IN  IF file.kind = "missing" THEN [raised |-> "", value |-> NoneValue]
        ELSE IF file.kind = "garbage"
             THEN [raised |-> "JSONDecodeError", value |-> NoneValue]
        ELSE [raised |-> "", value |-> JsonLoad(file)]

\* delete_conversation(conv_id): the file is removed if it exists
DeleteConversation(st, conv_id) ==
    IF st[conv_id].kind # "missing" THEN [st EXCEPT ![conv_id] = NoRecord]
    ELSE st

RECURSIVE ReadAll(_, _)
\* the loop of list_conversations over the files, in the order glob yields
\* them: a file json.load rejects is passed over
ReadAll(st, order) ==
    IF order = <<>> THEN <<>>
    ELSE (IF st[Head(order)].kind \in {"object", "array"}
          THEN <<JsonLoad(st[Head(order)])>> ELSE <<>>)
         \o ReadAll(st, Tail(order))

RECURSIVE InsertDesc(_, _)
\* x goes behind every element whose key is not smaller than its own
InsertDesc(sorted, x) ==
    IF sorted = <<>> THEN <<x>>
    ELSE IF StrLt(Head(sorted).timestamp, x.timestamp) THEN <<x>> \o sorted
    ELSE <<Head(sorted)>> \o InsertDesc(Tail(sorted), x)

RECURSIVE SortDesc(_)
\* conversations.sort(key=timestamp, reverse=True): descending and stable
SortDesc(s) ==
    IF s = <<>> THEN <<>>
    ELSE InsertDesc(SortDesc(SubSeq(s, 1, Len(s) - 1)), s[Len(s)])

\* list_conversations(): x.get of the sort key raises on a value that is not
\* a dict
ListConversations(st, order) ==
    LET conversations == ReadAll(st, order)
    IN  IF \E i \in DOMAIN conversations : conversations[i].kind # "dict"
        THEN [raised |-> "AttributeError", value |-> <<>>]
        ELSE [raised |-> "", value |-> SortDesc(conversations)]

\* variant: the title is settled but nothing is written to the file
AutoSaveCurrentConversationNoWrite ==
    LET fresh == current_conversation_id = NoId
        conv_id == IF fresh THEN nIds + 1 ELSE current_conversation_id
        title == IF current_conversation_title = NewChatTitle
                 THEN GetConversationTitle(heap[messages])
                 ELSE current_conversation_title
    IN  /\ current_conversation_id' = conv_id
        /\ nIds' = IF fresh THEN nIds + 1 ELSE nIds
        /\ current_conversation_title' = title
        /\ store' = store
        /\ clock' = clock + 1

\* auto_save_current_conversation
AutoSaveCurrentConversation ==
    LET fresh == current_conversation_id = NoId
        conv_id == IF fresh THEN nIds + 1 ELSE current_conversation_id
        title == IF current_conversation_title = NewChatTitle
                 THEN GetConversationTitle(heap[messages])
                 ELSE current_conversation_title
    IN  /\ current_conversation_id' = conv_id
        /\ nIds' = IF fresh THEN nIds + 1 ELSE nIds
        /\ current_conversation_title' = title
        /\ store' = SaveConversation(store, current_conversation_id',
                                     current_conversation_title',
                                     heap[messages])
        /\ clock' = clock + 1

\* input_text.setEnabled(True); send_btn.setEnabled(True); ...
EnableInput == inputEnabled' = TRUE

\* on_response_finished: auto-save, refresh the sidebar, re-enable the input
OnResponseFinished(e) ==
    /\ AutoSaveCurrentConversation
    /\ EnableInput
    /\ Observe(e)
    /\ handledLog' = Append(handledLog, [turn |-> e.turn, sig |-> e.sig])
    /\ UNCHANGED <<directVars, heap, nLists, messages, self_worker, workers,
                   nTurns, base, startedOn, produced, emitted>>

\* variant: the error slot returns without calling on_response_finished
OnResponseErrorNoReenable(e) ==
    /\ Observe(e)
    /\ handledLog' = Append(handledLog, [turn |-> e.turn, sig |-> e.sig])
    /\ UNCHANGED <<sessionVars, self_worker, workers, nTurns, base, startedOn, produced,
                   emitted>>

\* on_response_error
OnResponseError(e) == OnResponseFinished(e)

\* append_bot_chunk: the chunk is inserted at the end of the chat display
AppendBotChunk(e) ==
    /\ Observe(e)
    /\ UNCHANGED <<sessionVars, self_worker, workers, nTurns, base, startedOn, produced,
                   emitted, handledLog>>

\* the GUI event loop delivers the oldest queued text_chunk signal
DeliverTextChunk ==
    /\ queue # <<>>
    /\ Head(queue).sig = "text_chunk"
    /\ queue' = Tail(queue)
    /\ AppendBotChunk(Head(queue))

\* the GUI event loop delivers the oldest queued finished signal
DeliverFinished ==
    /\ queue # <<>>
    /\ Head(queue).sig = "finished"
    /\ queue' = Tail(queue)
    /\ OnResponseFinished(Head(queue))

\* the GUI event loop delivers the oldest queued error signal
DeliverError ==
    /\ queue # <<>>
    /\ Head(queue).sig = "error"
    /\ queue' = Tail(queue)
    /\ OnResponseError(Head(queue))

(***************************************************************************)
(* GUI thread: new chat and loading a saved conversation.                  *)
(***************************************************************************)
\* start_new_chat (New Chat button, Ctrl+N; the Clear button while enabled)
StartNewChat ==
    /\ nLists < MaxLists
    /\ nLists' = nLists + 1
    /\ heap' = [heap EXCEPT ![nLists + 1] = <<Msg("system", SYSTEM_PROMPT)>>]
    /\ messages' = nLists + 1
    /\ nIds' = nIds + 1
    /\ current_conversation_id' = nIds + 1
    /\ current_conversation_title' = NewChatTitle
    /\ UNCHANGED <<directVars, store, clock, inputEnabled, self_worker, workers, nTurns,
                   queue, base, startedOn, produced, emitted, observed, handledLog>>

\* variant: the title is read under a key the record does not have
LoadConversationToChatUntitled(conv_id) ==
    /\ store[conv_id].kind = "object"
    /\ nLists < MaxLists
    /\ nLists' = nLists + 1
    /\ LET conv_data == LoadConversation(store, conv_id).value
       IN  /\ heap' = [heap EXCEPT ![nLists + 1] = conv_data.messages]
           /\ current_conversation_title' = UntitledTitle
    /\ messages' = nLists + 1
    /\ current_conversation_id' = conv_id
    /\ UNCHANGED <<directVars, nIds, store, clock, inputEnabled, self_worker, workers,
                   nTurns, queue, base, startedOn, produced, emitted, observed,
                   handledLog>>

\* load_conversation_to_chat(conv_id), for an item of the sidebar
LoadConversationToChat(conv_id) ==
    /\ store[conv_id].kind = "object"
    /\ nLists < MaxLists
    /\ nLists' = nLists + 1
    /\ LET conv_data == LoadConversation(store, conv_id).value
       IN  /\ heap' = [heap EXCEPT ![nLists + 1] = conv_data.messages]
           /\ current_conversation_title' = conv_data.title
    /\ messages' = nLists + 1
    /\ current_conversation_id' = conv_id
    /\ UNCHANGED <<directVars, nIds, store, clock, inputEnabled, self_worker, workers,
                   nTurns, queue, base, startedOn, produced, emitted, observed,
                   handledLog>>

(***************************************************************************)
(* Specifications.                                                         *)
(***************************************************************************)
Next ==
    \/ \E input \in InputTexts : SendMessage(input)
    \/ \E t \in Turns : WorkerStep(t)
    \/ DeliverTextChunk
    \/ DeliverFinished
    \/ DeliverError
    \/ StartNewChat
    \/ \E c \in ConvIds : LoadConversationToChat(c)

Spec == Init /\ [][Next]_vars

\* a worker thread that can take a step of run() takes one
WorkerThreads == \E t \in Turns : WorkerStep(t)

\* the GUI event loop delivers the oldest queued signal
EventLoop == DeliverTextChunk \/ DeliverFinished \/ DeliverError

\* A started thread keeps running (at most one is in flight at a time), a
\* stream is finite, and the GUI event loop keeps delivering queued signals.
FairSpec == Spec /\ WF_vars(WorkerThreads) /\ WF_vars(EventLoop)

(***************************************************************************)
(* The session with a message longer than a title.                         *)
(***************************************************************************)
RECURSIVE Repeat(_, _)
\* c * n
Repeat(c, n) == IF n = 0 THEN <<>> ELSE <<c>> \o Repeat(c, n - 1)

\* a text of 42 characters whose 40th is a space
LongText == Repeat("a", TitleLen - 1) \o <<" ", "b", "c">>

\* what the user may have typed when send_message runs for the k-th turn:
\* the long text in the first turn, the short one in the later turns, or
\* nothing but a space
TypedAt(k) == IF k = 1 THEN {<<" ">>, LongText} ELSE InputTexts

TitleNext ==
    \/ \E input \in TypedAt(nTurns + 1) : SendMessage(input)
    \/ \E t \in Turns : WorkerStep(t)
    \/ DeliverTextChunk
    \/ DeliverFinished
    \/ DeliverError
    \/ StartNewChat
    \/ \E c \in ConvIds : LoadConversationToChat(c)

TitleSpec == Init /\ [][TitleNext]_vars

(***************************************************************************)
(* The session over a directory that holds a conversation of another run.  *)
(***************************************************************************)
\* the id of the file found in CONVERSATIONS_DIR at startup (a uuid4, which
\* no id generated in the session equals)
FoundId == MaxLists + 1

\* conversations a file of the documented format may hold: one with two
\* system messages, one with none, one whose system message is empty
TwoSystemsConv ==
    [title |-> <<"q">>,
     messages |-> <<Msg("system", <<"A">>), Msg("system", <<"B">>),
                    Msg("user", <<"q">>), Msg("assistant", <<"r">>)>>]
NoSystemConv ==
    [title |-> <<"q">>,
     messages |-> <<Msg("user", <<"q">>), Msg("assistant", <<"r">>)>>]
EmptySystemConv ==
    [title |-> <<"q">>,
     messages |-> <<Msg("system", <<>>), Msg("user", <<"q">>),
                    Msg("assistant", <<"r">>)>>]
FoundConvs == {TwoSystemsConv, NoSystemConv, EmptySystemConv}

\* the file of such a conversation, saved at tick 0
FoundFile(conv) ==
    JsonDump([id |-> FoundId, title |-> conv.title,
              messages |-> conv.messages, timestamp |-> IsoFormat(0)])

\* LLMChatClient.__init__ with one such file in the directory
RequestInit ==
    /\ FreshSession
    /\ \E conv \in FoundConvs :
          store = [c \in ConvIds \cup {FoundId} |->
                     IF c = FoundId THEN FoundFile(conv) ELSE NoRecord]
    /\ DefaultSettings
    /\ settings_file = NoSettingsFile
    /\ NoCalls

RequestNext ==
    \/ \E input \in InputTexts : SendMessage(input)
    \/ \E t \in Turns : WorkerStep(t)
    \/ DeliverTextChunk
    \/ DeliverFinished
    \/ DeliverError
    \/ StartNewChat
    \/ \E c \in DOMAIN store : LoadConversationToChat(c)

RequestSpec == RequestInit /\ [][RequestNext]_vars

(***************************************************************************)
(* The sampling settings: load_settings, the Apply button of the settings  *)
(* dialog, and the request parameters, exercised by direct calls.          *)
(***************************************************************************)
\* what a settings file may hold under "temperature" and under "top_p"
FileTemperatures == {Absent, None, Num(50), Num(150), NonNumeric}
FileTopPs == {Absent, None, Num(30), Num(-50), NaN}
\* what it may hold under "sampling_mode" ("" is the missing key, "nucleus"
\* any value that is neither of the two modes)
FileModes == {"", "temperature", "top_p", "nucleus"}

\* a file that is not JSON, and one that is JSON but not an object
GarbledSettingsFile == [NoSettingsFile EXCEPT !.kind = "garbage"]
ArraySettingsFile == [NoSettingsFile EXCEPT !.kind = "array"]

SettingsFiles ==
    {NoSettingsFile, GarbledSettingsFile, ArraySettingsFile}
    \cup [kind : {"object"}, temperature : FileTemperatures,
          top_p : FileTopPs, sampling_mode : FileModes]

\* positions of the two sliders (range 0..100) when Apply is clicked
SliderValues == {0, 35, 100}

\* arguments _sanitize_sampling is called with directly
SampleValues ==
    {None, Num(-50), Num(50), Num(150), NaN, NonNumeric, NumStr(50)}

\* the globals as an earlier Apply may have left them
AppliedSettings ==
    /\ current_temperature = Num(35)
    /\ current_top_p = Num(100)
    /\ current_sampling_mode = "top_p"

\* settings.get(key, default)
Get(value, default) == IF value = Absent THEN default ELSE value

\* what the body of the try block of load_settings raises on a file
SettingsReadError(f) ==
    CASE f.kind = "garbage" -> "JSONDecodeError"
      [] f.kind = "array" -> "AttributeError"
      [] OTHER -> ""

\* variant: only a JSON syntax error is caught
LoadSettingsNarrowExcept ==
    LET f == settings_file
        exc == IF f.kind = "missing" THEN "" ELSE SettingsReadError(f)
    IN  /\ IF f.kind = "object"
           THEN /\ current_temperature' = Get(f.temperature, DEFAULT_TEMPERATURE)
                /\ current_top_p' = Get(f.top_p, DEFAULT_TOP_P)
                /\ current_sampling_mode' =
                      IF f.sampling_mode = "" THEN DEFAULT_SAMPLING_MODE
                      ELSE f.sampling_mode
           ELSE UNCHANGED <<current_temperature, current_top_p,
                            current_sampling_mode>>
        /\ ret' = [NoRet EXCEPT !.fn = "load_settings",
                                !.raised = IF exc = "JSONDecodeError" THEN ""
                                           ELSE exc]
        /\ UNCHANGED <<settings_file, dialog, saved, chatVars>>

\* load_settings(): no file, or an exception in the try block, leaves the
\* globals as they are; "except Exception: pass" lets nothing out
LoadSettings ==
    LET f == settings_file
        exc == IF f.kind = "missing" THEN "" ELSE SettingsReadError(f)
    IN  /\ IF f.kind = "object"
           THEN /\ current_temperature' = Get(f.temperature, DEFAULT_TEMPERATURE)
                /\ current_top_p' = Get(f.top_p, DEFAULT_TOP_P)
                /\ current_sampling_mode' =
                      IF f.sampling_mode = "" THEN DEFAULT_SAMPLING_MODE
                      ELSE f.sampling_mode
           ELSE UNCHANGED <<current_temperature, current_top_p,
                            current_sampling_mode>>
        /\ ret' = [NoRet EXCEPT !.fn = "load_settings", !.raised = ""]
        /\ UNCHANGED <<settings_file, dialog, saved, chatVars>>

\* save_settings(): the three globals are written as one JSON object
SaveSettings(temperature, top_p, sampling_mode) ==
    [kind |-> "object", temperature |-> temperature, top_p |-> top_p,
     sampling_mode |-> sampling_mode]

\* SettingsDialog.apply_settings: the radio button and the two sliders set the
\* globals, which save_settings writes
ApplySettings(temp_checked, temp_slider, top_p_slider) ==
    LET mode == IF temp_checked THEN "temperature" ELSE "top_p"
    IN  /\ current_sampling_mode' = mode
        /\ current_temperature' = Num(temp_slider)
        /\ current_top_p' = Num(top_p_slider)
        /\ settings_file' = SaveSettings(Num(temp_slider), Num(top_p_slider), mode)
        /\ ret' = NoRet
        /\ UNCHANGED <<dialog, saved, chatVars>>

\* a direct call of _create_args under the current globals
CallCreateArgs ==
    /\ ret' = [NoRet EXCEPT
                 !.fn = "_create_args",
                 !.value = CreateArgs(MODEL, SYSTEM_PROMPT, <<>>)]
    /\ UNCHANGED <<current_temperature, current_top_p, current_sampling_mode,
                   settings_file, dialog, saved, chatVars>>

\* a direct call of _sanitize_sampling(temperature, top_p)
CallSanitizeSampling(temperature, top_p) ==
    /\ ret' = [NoRet EXCEPT
                 !.fn = "_sanitize_sampling",
                 !.args = <<temperature, top_p>>,
                 !.value = SanitizeSampling(temperature, top_p)]
    /\ UNCHANGED <<current_temperature, current_top_p, current_sampling_mode,
                   settings_file, dialog, saved, chatVars>>

\* the session as __init__ leaves it before load_settings, with the globals at
\* their defaults or as an earlier Apply left them, and any settings file
SamplingInit ==
    /\ FreshSession
    /\ store = [c \in ConvIds |-> NoRecord]
    /\ DefaultSettings \/ AppliedSettings
    /\ settings_file \in SettingsFiles
    /\ NoCalls

SamplingNext ==
    \/ LoadSettings
    \/ \E c \in BOOLEAN, t \in SliderValues, p \in SliderValues :
          ApplySettings(c, t, p)
    \/ CallCreateArgs
    \/ \E t \in SampleValues, p \in SampleValues : CallSanitizeSampling(t, p)

SamplingSpec == SamplingInit /\ [][SamplingNext]_vars

(***************************************************************************)
(* The conversation store: save_conversation, load_conversation,           *)
(* list_conversations and delete_conversation, exercised by direct calls.  *)
(***************************************************************************)
\* conversations handed to save_conversation: one whose texts need escaping
\* (a quote, a backslash before an n, a newline, a non-ASCII character), and
\* a plain one
QuotedConv ==
    [title |-> <<"Q", "\"">>,
     messages |-> <<Msg("system", <<"S">>),
                    Msg("user", <<"a", "\"", "\\", "n", "\n", EAcute>>)>>]
PlainConv ==
    [title |-> <<"h", "i">>,
     messages |-> <<Msg("user", <<"h", "i">>),
                    Msg("assistant", <<"H", "e", "l", "l", "o">>)>>]
Convs == {QuotedConv, PlainConv}

\* files found in CONVERSATIONS_DIR that no save of this run wrote
FoundFiles == {NoRecord, GarbledRecord, ArrayRecord}

\* the ids CONVERSATIONS_DIR has a file for
Files(st) == {c \in DOMAIN st : st[c].kind # "missing"}

RECURSIVE Ascending(_)
Ascending(ids) ==
    IF ids = {} THEN <<>>
    ELSE LET least == CHOOSE x \in ids : \A y \in ids : x <= y
         IN  <<least>> \o Ascending(ids \ {least})

RECURSIVE Reverse(_)
Reverse(s) ==
    IF s = <<>> THEN <<>> ELSE Append(Reverse(Tail(s)), Head(s))

\* CONVERSATIONS_DIR.glob("*.json"): the files in the order of the directory,
\* which is any order; two opposite ones are tried
GlobOrders(st) == {Ascending(Files(st)), Reverse(Ascending(Files(st)))}

\* a direct call of save_conversation(conv_id, conv.title, conv.messages)
CallSaveConversation(conv_id, conv) ==
    /\ store' = SaveConversation(store, conv_id, conv.title, conv.messages)
    /\ saved' = IF conv_id = NoId THEN saved
                ELSE [saved EXCEPT ![conv_id] = conv]
    /\ ret' = [NoRet EXCEPT
                 !.fn = "save_conversation",
                 !.args = <<conv_id, conv>>,
                 !.repeat = (ret.fn = "save_conversation"
                             /\ ret.args = <<conv_id, conv>>)]
    /\ UNCHANGED <<clock, guiVars, samplingVars>>

\* a direct call of load_conversation(conv_id)
CallLoadConversation(conv_id) ==
    /\ ret' = [NoRet EXCEPT
                 !.fn = "load_conversation",
                 !.args = <<conv_id>>,
                 !.raised = LoadConversation(store, conv_id).raised,
                 !.value = LoadConversation(store, conv_id).value]
    /\ UNCHANGED <<store, saved, clock, guiVars, samplingVars>>

\* a direct call of list_conversations()
CallListConversations(order) ==
    /\ ret' = [NoRet EXCEPT
                 !.fn = "list_conversations",
                 !.raised = ListConversations(store, order).raised,
                 !.value = ListConversations(store, order).value]
    /\ UNCHANGED <<store, saved, clock, guiVars, samplingVars>>

\* a direct call of delete_conversation(conv_id)
CallDeleteConversation(conv_id) ==
    /\ store' = DeleteConversation(store, conv_id)
    /\ saved' = [saved EXCEPT ![conv_id] = NoConv]
    /\ ret' = [NoRet EXCEPT !.fn = "delete_conversation",
                            !.args = <<conv_id>>]
    /\ UNCHANGED <<clock, guiVars, samplingVars>>

\* time passes: datetime.now() has moved on by a tick
Tick ==
    /\ clock < MaxClock
    /\ clock' = clock + 1
    /\ UNCHANGED <<store, saved, ret, guiVars, samplingVars>>

\* the fresh session over a directory that holds nothing, or one file that
\* is not a conversation this run saved
StoreInit ==
    /\ FreshSession
    /\ \E found \in FoundFiles :
          store = [c \in StoreIds |-> IF c = 1 THEN found ELSE NoRecord]
    /\ DefaultSettings
    /\ settings_file = NoSettingsFile
    /\ ret = NoRet
    /\ saved = [c \in StoreIds |-> NoConv]

StoreNext ==
    \/ \E c \in StoreIds \cup {NoId}, conv \in Convs :
          CallSaveConversation(c, conv)
    \/ \E c \in StoreIds : CallLoadConversation(c)
    \/ \E order \in GlobOrders(store) : CallListConversations(order)
    \/ \E c \in StoreIds : CallDeleteConversation(c)
    \/ Tick

StoreSpec == StoreInit /\ [][StoreNext]_vars

(***************************************************************************)
(* The Apply button of the settings dialog while a worker builds its       *)
(* request.  The GUI thread and the worker thread read and write the three *)
(* sampling globals without a lock, so the statements of apply_settings    *)
(* and of _create_args interleave; each is a step of its own here.         *)
(***************************************************************************)
\* positions of the temperature slider and the top_p slider at Apply
ApplyPositions == {<<50, 80>>}

\* the three sampling globals
Config ==
    [mode |-> current_sampling_mode, temperature |-> current_temperature,
     top_p |-> current_top_p]

\* the three globals as apply_settings leaves them
Target(checked, temp_slider, top_p_slider) ==
    [mode |-> IF checked THEN "temperature" ELSE "top_p",
     temperature |-> Num(temp_slider), top_p |-> Num(top_p_slider)]

\* the complete configurations in force now: the globals, or, while
\* apply_settings is under way, the one it found and the one it is setting
InForce ==
    IF dialog.pc = "closed" THEN {Config}
    ELSE {dialog.before,
          Target(dialog.temp_checked, dialog.temp_slider, dialog.top_p_slider)}

\* the worker is between the start of run() and the return of _create_args
Building(w) == w.pc \in {"temp", "top_p"}

\* line 1094: current_sampling_mode = "temperature" if ... else "top_p"
ApplyMode(checked, temp_slider, top_p_slider) ==
    /\ dialog.pc = "closed"
    /\ current_sampling_mode' = IF checked THEN "temperature" ELSE "top_p"
    /\ dialog' = [pc |-> "temperature", temp_checked |-> checked,
                  temp_slider |-> temp_slider, top_p_slider |-> top_p_slider,
                  before |-> Config]
    /\ workers' = [t \in Turns |->
                     IF Building(workers[t])
                     THEN [workers[t] EXCEPT !.snapshots =
                             @ \cup {Target(checked, temp_slider, top_p_slider)}]
                     ELSE workers[t]]
    /\ UNCHANGED <<heap, nLists, messages, current_conversation_id,
                   current_conversation_title, nIds, store, clock,
                   inputEnabled, self_worker, nTurns, queue, base, startedOn,
                   produced, emitted, observed, handledLog,
                   current_temperature, current_top_p, settings_file, ret,
                   saved>>

\* line 1095: current_temperature = self.temp_slider.value() / 100
ApplyTemperature ==
    /\ dialog.pc = "temperature"
    /\ current_temperature' = Num(dialog.temp_slider)
    /\ dialog' = [dialog EXCEPT !.pc = "top_p"]
    /\ UNCHANGED <<chatVars, current_top_p, current_sampling_mode,
                   settings_file, ret, saved>>

\* lines 1096-1100: current_top_p = ...; save_settings(); the dialog closes
ApplyTopP ==
    /\ dialog.pc = "top_p"
    /\ current_top_p' = Num(dialog.top_p_slider)
    /\ settings_file' = SaveSettings(current_temperature,
                                     Num(dialog.top_p_slider),
                                     current_sampling_mode)
    /\ dialog' = [dialog EXCEPT !.pc = "closed"]
    /\ UNCHANGED <<chatVars, current_temperature, current_sampling_mode, ret,
                   saved>>

\* lines 277-279: append the user message, build system and convo
RunAppend(t) ==
    /\ workers[t].pc = "start"
    /\ LET l == workers[t].messages_list
       IN  heap' = [heap EXCEPT
                      ![l] = Append(@, Msg("user", workers[t].user_text))]
    /\ workers' = [workers EXCEPT ![t].pc = "temp", ![t].snapshots = InForce]
    /\ UNCHANGED <<directVars, nLists, messages, current_conversation_id,
                   current_conversation_title, nIds, store, clock,
                   inputEnabled, self_worker, nTurns, queue, base, startedOn,
                   produced, emitted, observed, handledLog>>

\* line 247: temp = current_temperature if the mode is "temperature" else None
ReadTemperature(t) ==
    /\ workers[t].pc = "temp"
    /\ workers' = [workers EXCEPT
                     ![t].pc = "top_p",
                     ![t].temp = IF current_sampling_mode = "temperature"
                                 THEN current_temperature ELSE None]
    /\ UNCHANGED <<sessionVars, self_worker, nTurns, queue, base, startedOn,
                   produced, emitted, observed, handledLog>>

\* lines 248-255: top_p_val = current_top_p if the mode is "top_p" else None;
\* sanitize; the kwargs
ReadTopP(t) ==
    /\ workers[t].pc = "top_p"
    /\ LET top_p_val == IF current_sampling_mode = "top_p"
                        THEN current_top_p ELSE None
           s == SanitizeSampling(workers[t].temp, top_p_val)
           msgs == heap[workers[t].messages_list]
       IN  workers' = [workers EXCEPT
                         ![t].pc = "call",
                         ![t].out = <<>>,
                         ![t].kwargs =
                            [model |-> MODEL, system |-> SystemOf(msgs),
                             messages |-> ConvoOf(msgs),
                             max_tokens |-> MAX_TOKENS,
                             temperature |-> IF s.t # None THEN s.t ELSE Absent,
                             top_p |-> IF s.t = None /\ s.p # None THEN s.p
                                       ELSE Absent]]
    /\ UNCHANGED <<sessionVars, self_worker, nTurns, queue, base, startedOn,
                   produced, emitted, observed, handledLog>>

\* the session with the settings at their defaults and no settings file, or
\* as load_settings found them in the file an earlier Apply wrote
ApplyInit ==
    /\ FreshSession
    /\ store = [c \in ConvIds |-> NoRecord]
    /\ \/ DefaultSettings /\ settings_file = NoSettingsFile
       \/ AppliedSettings
          /\ settings_file = SaveSettings(Num(35), Num(100), "top_p")
    /\ NoCalls

\* a slot of the GUI thread runs only when no other slot of it is under way
GuiIdle == dialog.pc = "closed"

ApplyNext ==
    \/ GuiIdle /\ \E input \in InputTexts : SendMessage(input)
    \/ \E t \in Turns : RunAppend(t)
    \/ \E t \in Turns : ReadTemperature(t)
    \/ \E t \in Turns : ReadTopP(t)
    \/ \E t \in Turns : StreamOpen(t)
    \/ \E t \in Turns : \E d \in DeltasAt(Len(produced[t]) + 1) : StreamDelta(t, d)
    \/ \E t \in Turns : StreamEnd(t)
    \/ \E t \in Turns : \E e \in Exceptions : StreamRaise(t, e)
    \/ \E t \in Turns : Finalize(t)
    \/ \E t \in Turns : HandleException(t)
    \/ GuiIdle /\ DeliverTextChunk
    \/ GuiIdle /\ DeliverFinished
    \/ GuiIdle /\ DeliverError
    \/ GuiIdle /\ StartNewChat
    \/ GuiIdle /\ \E c \in ConvIds : LoadConversationToChat(c)
    \/ \E checked \in BOOLEAN, pos \in ApplyPositions :
          ApplyMode(checked, pos[1], pos[2])
    \/ ApplyTemperature
    \/ ApplyTopP

ApplySpec == ApplyInit /\ [][ApplyNext]_vars

(***************************************************************************)
(* Vocabulary of the properties.                                           *)
(***************************************************************************)
TerminalSigs == {"finished", "error"}
InFlightPcs == {"start", "call", "stream", "finalize", "failed"}

Started(t) == workers[t].pc # "none"
InFlight(t) == workers[t].pc \in InFlightPcs

IsPrefix(a, b) == Len(a) <= Len(b) /\ SubSeq(b, 1, Len(a)) = a

IsInfix(sub, s) ==
    \E i \in 1..(Len(s) - Len(sub) + 1) : SubSeq(s, i, i + Len(sub) - 1) = sub

CountSig(events, sigs) ==
    Cardinality({i \in DOMAIN events : events[i].sig \in sigs})

RECURSIVE Flatten(_)
\* the concatenation, in order, of a sequence of texts
Flatten(parts) ==
    IF parts = <<>> THEN <<>> ELSE Head(parts) \o Flatten(Tail(parts))

RECURSIVE ChunkArgs(_)
\* the texts of the text_chunk signals of a sequence of signals, in order
ChunkArgs(events) ==
    IF events = <<>> THEN <<>>
    ELSE IF Head(events).sig = "text_chunk"
         THEN <<Head(events).arg>> \o ChunkArgs(Tail(events))
         ELSE ChunkArgs(Tail(events))

\* the list the worker of turn t writes, and what the turn has added to it
ListOf(t) == heap[workers[t].messages_list]
Growth(t) == SubSeq(ListOf(t), Len(base[t]) + 1, Len(ListOf(t)))
UserMsg(t) == Msg("user", workers[t].user_text)

TerminalEmitted(t) == CountSig(emitted[t], TerminalSigs) > 0
TerminalObserved(t) == CountSig(observed[t], TerminalSigs) > 0

\* the state of the turn in the terms of the specification's state machine
TurnState(w) ==
    CASE w.pc \in {"none", "done"} -> "Idle"
      [] w.pc \in {"start", "call"} -> "Dispatching"
      [] w.pc = "stream" -> "Streaming"
      [] w.pc = "finalize" -> "Finalizing"
      [] w.pc = "failed" -> "Failed"

Hi == <<"h","i">>
Hel == <<"H","e","l">>
Hello == <<"H","e","l","l","o">>

(***************************************************************************)
(* C1. A started worker emits no terminal signal while its run is in       *)
(* progress and exactly one, finished or error, by the time run() has      *)
(* ended; it never emits two, and never both kinds.                        *)
(***************************************************************************)
C1_ExactlyOneTerminal ==
    \A t \in Turns :
        /\ CountSig(emitted[t], {"finished"}) + CountSig(emitted[t], {"error"}) <= 1
        /\ InFlight(t) => ~TerminalEmitted(t)
        /\ workers[t].pc = "done" =>
              CountSig(emitted[t], {"finished"}) + CountSig(emitted[t], {"error"}) = 1

\* a run that raised in mid-stream has ended with its one error signal
C1_Witness ==
    \E t \in Turns :
        /\ workers[t].pc = "done"
        /\ Len(emitted[t]) >= 2
        /\ emitted[t][Len(emitted[t])].sig = "error"

(***************************************************************************)
(* C2. A turn adds to its list first the user message and then exactly one *)
(* assistant-role message: nothing before run() starts, the user message   *)
(* alone while the call is in progress, both once run() has ended; once a  *)
(* terminal signal is emitted the list does not end with a user message.   *)
(***************************************************************************)
C2_TurnAppendsUserThenAssistant ==
    \A t \in Turns :
        Started(t) =>
            /\ IsPrefix(base[t], ListOf(t))
            /\ workers[t].pc = "start" => Growth(t) = <<>>
            /\ workers[t].pc \in {"call", "stream", "finalize", "failed"} =>
                  Growth(t) = <<UserMsg(t)>>
            /\ workers[t].pc = "done" =>
                  /\ Len(Growth(t)) = 2
                  /\ Growth(t)[1] = UserMsg(t)
                  /\ Growth(t)[2].role = "assistant"
            /\ TerminalEmitted(t) => ListOf(t)[Len(ListOf(t))].role # "user"

\* a turn that failed after the delta "Hel" has added the user message and
\* the error descriptor
C2_Witness ==
    \E t \in Turns :
        /\ workers[t].pc = "done"
        /\ produced[t] = <<Hel>>
        /\ Growth(t) = <<Msg("user", Hi), Msg("assistant", ErrorMsg(workers[t].exc))>>
        /\ workers[t].exc \in Exceptions

(***************************************************************************)
(* C3 as stated. In every state after send_message has started the worker  *)
(* the user message is already in the list.                                *)
(***************************************************************************)
C3_UserAppendedWhenStartReturns ==
    \A t \in Turns :
        Started(t) =>
            /\ Len(ListOf(t)) > Len(base[t])
            /\ ListOf(t)[Len(base[t]) + 1] = UserMsg(t)

(***************************************************************************)
(* C3 as amended. The worker thread appends the user message as the first  *)
(* statement of run(): it is in the list, right after the messages that    *)
(* were there at send_message, in every state from the point the backend   *)
(* call can be issued, and before any signal of the turn is emitted.       *)
(***************************************************************************)
C3_UserAppendedBeforeBackendCall ==
    \A t \in Turns :
        (workers[t].pc \in {"call", "stream", "finalize", "failed", "done"}
            \/ emitted[t] # <<>>) =>
            /\ Len(ListOf(t)) > Len(base[t])
            /\ ListOf(t)[Len(base[t]) + 1] = UserMsg(t)

\* the backend call is about to be issued and the user message is in the list
C3_Witness ==
    \E t \in Turns :
        /\ workers[t].pc = "call"
        /\ Growth(t) = <<Msg("user", Hi)>>
        /\ workers[t].kwargs.messages = <<Msg("user", Hi)>>

(***************************************************************************)
(* C4. The text_chunk signals a worker emits are exactly the deltas the    *)
(* backend has yielded, in order; the chunks the GUI slot has run for are  *)
(* a prefix of them, and all of them once the terminal signal is handled;  *)
(* the GUI receives the signals of a turn in the order of emission; every  *)
(* queued signal belongs to the latest turn started.                       *)
(***************************************************************************)
C4_ChunksRelayedInOrder ==
    /\ \A t \in Turns :
          /\ ChunkArgs(emitted[t]) = produced[t]
          /\ IsPrefix(observed[t], emitted[t])
          /\ IsPrefix(ChunkArgs(observed[t]), produced[t])
          /\ TerminalObserved(t) => ChunkArgs(observed[t]) = produced[t]
    /\ \A i \in DOMAIN queue : queue[i].turn = self_worker

\* both deltas of a two-delta stream have been relayed, then the terminal
C4_Witness ==
    \E t \in Turns :
        /\ TerminalObserved(t)
        /\ Len(produced[t]) = 2
        /\ ChunkArgs(observed[t]) = produced[t]

(***************************************************************************)
(* C5. In the order of emission and in the order the GUI slots run, the    *)
(* terminal signal of a turn is the last signal of the turn: no text_chunk *)
(* follows it.                                                             *)
(***************************************************************************)
C5_TerminalAfterChunks ==
    \A t \in Turns :
        /\ \A i \in DOMAIN emitted[t] :
              emitted[t][i].sig \in TerminalSigs => i = Len(emitted[t])
        /\ \A i \in DOMAIN observed[t] :
              observed[t][i].sig \in TerminalSigs =>
                  /\ i = Len(observed[t])
                  /\ Len(observed[t]) = Len(emitted[t])
                  /\ workers[t].pc = "done"

\* the GUI has run the slots for a chunk and then for the terminal signal
C5_Witness ==
    \E t \in Turns :
        /\ Len(observed[t]) >= 2
        /\ observed[t][1].sig = "text_chunk"
        /\ observed[t][Len(observed[t])].sig \in TerminalSigs

(***************************************************************************)
(* C6. When run() has ended with a finished signal, the final text is the  *)
(* concatenation in order of the deltas the backend yielded, or            *)
(* "(Empty response)" when that concatenation is empty, and both the       *)
(* assistant message appended to the list and the finished signal carry    *)
(* that text.                                                              *)
(***************************************************************************)
C6_FinalTextIsConcatenation ==
    \A t \in Turns :
        (workers[t].pc = "done" /\ CountSig(emitted[t], {"finished"}) > 0) =>
            LET joined == Flatten(produced[t])
                finalText == IF joined = <<>> THEN EmptyResponse ELSE joined
            IN  /\ Growth(t) = <<UserMsg(t), Msg("assistant", finalText)>>
                /\ emitted[t][Len(emitted[t])] =
                      [sig |-> "finished", arg |-> finalText]

\* user text "hi", deltas "Hel" and "lo": {user, "hi"}, {assistant, "Hello"}
\* are appended and finished carries "Hello"
C6_Witness ==
    \E t \in Turns :
        /\ workers[t].pc = "done"
        /\ produced[t] = <<Hel, <<"l","o">>>>
        /\ Growth(t) = <<Msg("user", Hi), Msg("assistant", Hello)>>
        /\ emitted[t][Len(emitted[t])] = [sig |-> "finished", arg |-> Hello]

(***************************************************************************)
(* C7. When the backend call has raised and run() has ended, the turn has  *)
(* appended one assistant-role message, whose content is the descriptor    *)
(* "(API error: <type>: <message>)" naming the exception's type and        *)
(* message, the error signal carries that same descriptor, no finished     *)
(* signal was emitted, and the text accumulated so far was not appended.   *)
(***************************************************************************)
C7_FailureAppendsDescriptor ==
    \A t \in Turns :
        /\ workers[t].pc = "failed" =>
              /\ ~TerminalEmitted(t)
              /\ Growth(t) = <<UserMsg(t)>>
        /\ (workers[t].pc = "done" /\ workers[t].exc # NoExc) =>
              LET descriptor == Growth(t)[2].content
              IN  /\ Len(Growth(t)) = 2
                  /\ Growth(t)[2].role = "assistant"
                  /\ IsPrefix(ApiErrorPrefix, descriptor)
                  /\ IsInfix(workers[t].exc.name, descriptor)
                  /\ IsInfix(workers[t].exc.text, descriptor)
                  /\ descriptor # workers[t].out
                  /\ emitted[t][Len(emitted[t])] =
                        [sig |-> "error", arg |-> descriptor]
                  /\ CountSig(emitted[t], {"finished"}) = 0

\* the backend raised after the delta "Hel" and the turn ended with the descriptor
C7_Witness ==
    \E t \in Turns :
        /\ workers[t].pc = "done"
        /\ workers[t].exc \in Exceptions
        /\ workers[t].out = Hel
        /\ Growth(t)[2] = Msg("assistant", ErrorMsg(workers[t].exc))
        /\ CountSig(emitted[t], {"error"}) = 1

(***************************************************************************)
(* C8. The state of a turn changes only along Idle -> Dispatching ->       *)
(* Streaming -> Finalizing -> Idle, or from Dispatching or Streaming to    *)
(* Failed and from Failed to Idle; a text_chunk is emitted only by a turn  *)
(* that is and stays Streaming, finished only on leaving Finalizing, error *)
(* only on leaving Failed; a Failed turn never streams again.              *)
(***************************************************************************)
LegalTransitions ==
    { <<"Idle", "Dispatching">>, <<"Dispatching", "Streaming">>,
      <<"Streaming", "Finalizing">>, <<"Finalizing", "Idle">>,
      <<"Dispatching", "Failed">>, <<"Streaming", "Failed">>,
      <<"Failed", "Idle">> }

TurnStepLegal(t) ==
    LET from == TurnState(workers[t])
        to == TurnState(workers'[t])
        sent == IF Len(emitted'[t]) = Len(emitted[t]) + 1
                THEN emitted'[t][Len(emitted'[t])].sig
                ELSE "nothing"
    IN  /\ from # to => <<from, to>> \in LegalTransitions
        /\ Len(emitted'[t]) > Len(emitted[t]) => Len(emitted'[t]) = Len(emitted[t]) + 1
        /\ sent = "text_chunk" => from = "Streaming" /\ to = "Streaming"
        /\ sent = "finished" => from = "Finalizing" /\ to = "Idle"
        /\ sent = "error" => from = "Failed" /\ to = "Idle"
        /\ (from = "Idle" /\ to = "Dispatching") => workers[t].pc = "none"

C8_LegalTransitions == [][\A t \in Turns : TurnStepLegal(t)]_vars

\* a turn is Failed after it has streamed a delta
C8_Witness ==
    \E t \in Turns :
        /\ TurnState(workers[t]) = "Failed"
        /\ produced[t] # <<>>

(***************************************************************************)
(* C9. At most one worker is in flight; from send_message starting a       *)
(* worker until the GUI has handled that worker's terminal signal the      *)
(* input and the send button are disabled and that worker is the latest    *)
(* one started, whatever else the user does (new chat, loading a saved     *)
(* conversation).                                                          *)
(***************************************************************************)
C9_AtMostOneWorker ==
    /\ Cardinality({t \in Turns : InFlight(t)}) <= 1
    /\ \A t \in Turns :
          (Started(t) /\ ~TerminalObserved(t)) =>
              /\ ~inputEnabled
              /\ self_worker = t
              /\ nTurns = t

\* a worker is streaming after the user has switched to a new chat
C9_Witness ==
    \E t \in Turns :
        /\ workers[t].pc = "stream"
        /\ messages # workers[t].messages_list
        /\ ~inputEnabled

(***************************************************************************)
(* C10. Every started turn leads to a state where the GUI has handled its  *)
(* terminal signal, finished or error, and the input is enabled again;     *)
(* and whenever no terminal signal is outstanding the input is enabled.    *)
(***************************************************************************)
C10_SendingReenabled ==
    /\ \A t \in Turns :
          (workers[t].pc = "start") ~> (TerminalObserved(t) /\ inputEnabled)
    /\ []((\A t \in Turns : Started(t) => TerminalObserved(t)) => inputEnabled)

\* after a turn that ended in error, a second turn on the same conversation
\* has reached its terminal signal and the input is enabled
C10_Witness ==
    /\ Len(handledLog) = 2
    /\ handledLog[1] = [turn |-> 1, sig |-> "error"]
    /\ handledLog[2].turn = 2
    /\ nLists = 1
    /\ TerminalObserved(2)
    /\ inputEnabled

(***************************************************************************)
(* Vocabulary of the sampling properties.                                  *)
(***************************************************************************)
\* the request parameters that are present, and a value within [0, 1]
Present(k) == {n \in {"temperature", "top_p"} : k[n] # Absent}
InUnitRange(x) == x.kind = "num" /\ 0 <= x.v /\ x.v <= 100

\* an input that is a number, or text that reads as one
IsNumeric(x) == x.kind \in {"num", "nan", "numstr"}

\* the number x stands for, brought into [0, 1] (NaN ends at the upper limit)
Clamped(x) ==
    CASE x.kind = "nan" -> Num(100)
      [] x.kind # "nan" /\ x.v < 0 -> Num(0)
      [] x.kind # "nan" /\ x.v > 100 -> Num(100)
      [] OTHER -> Num(x.v)

(***************************************************************************)
(* C11. Whatever the mode and the stored temperature and top_p are, absent *)
(* and out-of-range values included, the request _create_args builds holds *)
(* at most one of temperature and top_p, a value it holds lies in [0, 1],  *)
(* and max_tokens is 4096.                                                 *)
(***************************************************************************)
C11_RequestWellFormed ==
    ret.fn = "_create_args" =>
        /\ Cardinality(Present(ret.value)) <= 1
        /\ \A n \in Present(ret.value) : InUnitRange(ret.value[n])
        /\ ret.value.max_tokens = 4096

\* a stored temperature of 1.5 has gone into a request as 1.0
C11_Witness ==
    /\ ret.fn = "_create_args"
    /\ current_sampling_mode = "temperature"
    /\ current_temperature = Num(150)
    /\ ret.value.temperature = Num(100)
    /\ ret.value.top_p = Absent

(***************************************************************************)
(* C12. In every sampling configuration (the defaults, the one loaded from *)
(* a settings file, the one Apply sets) the request holds exactly one of   *)
(* temperature and top_p, the one the sampling mode selects.               *)
(***************************************************************************)
C12_ExactlyOneActive ==
    ret.fn = "_create_args" =>
        /\ Cardinality(Present(ret.value)) = 1
        /\ current_sampling_mode = "temperature" =>
              Present(ret.value) = {"temperature"}
        /\ current_sampling_mode = "top_p" => Present(ret.value) = {"top_p"}

(***************************************************************************)
(* C13. _sanitize_sampling brings each input that is a number (or reads as *)
(* one) into [0, 1], turns an absent or non-numeric input into None, gives *)
(* the temperature alone when both are numbers, and never gives both.      *)
(***************************************************************************)
C13_SanitizeClampsAndPicksOne ==
    ret.fn = "_sanitize_sampling" =>
        LET temperature == ret.args[1]
            top_p == ret.args[2]
        IN  /\ ret.value.t =
                  IF IsNumeric(temperature) THEN Clamped(temperature) ELSE None
            /\ ret.value.p =
                  IF IsNumeric(top_p) /\ ~IsNumeric(temperature)
                  THEN Clamped(top_p) ELSE None
            /\ ret.value.t = None \/ ret.value.p = None

\* sanitize(1.5, 0.5) has given the temperature 1.0 and no top_p
C13_Witness ==
    /\ ret.fn = "_sanitize_sampling"
    /\ ret.args = <<Num(150), Num(50)>>
    /\ ret.value = [t |-> Num(100), p |-> None]

FileOfCall == store[ret.args[1]]

\* the tick a timestamp was taken at
TickOf(timestamp) == CHOOSE k \in 0..MaxClock : IsoFormat(k) = timestamp

\* the ids of the files that hold a conversation
Readable(st) == {c \in DOMAIN st : st[c].kind = "object"}

(***************************************************************************)
(* C17. Once a conversation has been saved under an id, load_conversation  *)
(* of that id returns the title and the messages (roles and contents, in   *)
(* order) that were saved, whatever saves and deletes of other ids came in *)
(* between.                                                                *)
(***************************************************************************)
C17_LoadReturnsWhatWasSaved ==
    (ret.fn = "load_conversation" /\ saved[ret.args[1]] # NoConv) =>
        /\ ret.raised = ""
        /\ ret.value.kind = "dict"
        /\ ret.value.title = saved[ret.args[1]].title
        /\ ret.value.messages = saved[ret.args[1]].messages

\* the conversation whose texts need escaping has been loaded back intact,
\* after another id was saved later than it
C17_Witness ==
    /\ ret.fn = "load_conversation"
    /\ ret.args = <<1>>
    /\ saved[1] = QuotedConv
    /\ ret.value.title = QuotedConv.title
    /\ ret.value.messages = QuotedConv.messages
    /\ store[2].kind = "object"
    /\ TickOf(ret.value.timestamp) < TickOf(JsonLoadStr(store[2].timestamp))

(***************************************************************************)
(* C18 as stated.  Saving the same conversation twice in a row leaves the  *)
(* store as the first save left it, every field of the record included.    *)
(***************************************************************************)
C18_SaveIdempotent ==
    [][(ret'.fn = "save_conversation" /\ ret'.repeat) => store' = store]_vars

(***************************************************************************)
(* C18, amended.  Saving the same conversation twice in a row leaves the   *)
(* same files, and in the file of the id the same id, title and messages;  *)
(* the timestamp is the one of the first save or the time of the second.   *)
(***************************************************************************)
C18_SaveIdempotentButTimestamp ==
    [][(ret'.fn = "save_conversation" /\ ret'.repeat) =>
          /\ Files(store') = Files(store)
          /\ \A c \in StoreIds :
                /\ store'[c].kind = store[c].kind
                /\ store'[c].id = store[c].id
                /\ store'[c].title = store[c].title
                /\ store'[c].messages = store[c].messages
                /\ store'[c].timestamp \in
                      {store[c].timestamp, JsonDumpStr(IsoFormat(clock))}
                /\ c # ret'.args[1] => store'[c] = store[c]]_vars

\* a conversation has been saved a second time in a row, at a later tick
C18_Witness ==
    /\ ret.fn = "save_conversation"
    /\ ret.repeat
    /\ ret.args = <<1, PlainConv>>
    /\ clock = 2
    /\ store[1].timestamp = JsonDumpStr(IsoFormat(2))
    /\ Files(store) = {1}

(***************************************************************************)
(* C19. load_conversation never raises: for an id without a file, and for  *)
(* an id whose file is corrupt, it returns None.                           *)
(***************************************************************************)
C19_LoadNeverRaises ==
    ret.fn = "load_conversation" =>
        /\ ret.raised = ""
        /\ FileOfCall.kind \in {"missing", "garbage"} => ret.value = NoneValue

(***************************************************************************)
(* C20. list_conversations returns every stored conversation that can be   *)
(* read exactly once, the most recently saved first.                       *)
(***************************************************************************)
C20_ListCompleteNewestFirst ==
    ret.fn = "list_conversations" =>
        /\ ret.raised = ""
        /\ Len(ret.value) = Cardinality(Readable(store))
        /\ \A c \in Readable(store) :
              \E i \in DOMAIN ret.value : ret.value[i] = JsonLoad(store[c])
        /\ \A i, j \in DOMAIN ret.value :
              i < j => TickOf(ret.value[i].timestamp)
                          >= TickOf(ret.value[j].timestamp)

(***************************************************************************)
(* Vocabulary of the title properties.                                     *)
(***************************************************************************)
\* the content of the first message of role user, if there is one
HasUser(msgs) == \E i \in DOMAIN msgs : msgs[i].role = "user"
FirstUser(msgs) ==
    msgs[CHOOSE i \in DOMAIN msgs :
            /\ msgs[i].role = "user"
            /\ \A j \in 1..(i - 1) : msgs[j].role # "user"].content

\* s without the whitespace at its two ends
Trimmed(s) ==
    LET inked == {i \in DOMAIN s : s[i] \notin Whitespace}
    IN  IF inked = {} THEN <<>>
        ELSE SubSeq(s, CHOOSE i \in inked : \A j \in inked : i <= j,
                       CHOOSE i \in inked : \A j \in inked : i >= j)

\* the first 40 characters of the first user message, trimmed, with the given
\* suffix if the message is longer
TitleWith(msgs, suffix) ==
    LET content == FirstUser(msgs)
    IN  IF Len(content) > 40 THEN Trimmed(SubSeq(content, 1, 40)) \o suffix
        ELSE Trimmed(content)

\* the one-character ellipsis, written as the name of its code point
EllipsisChar == "U+2026"

\* the title and the messages a conversation file holds
TitleIn(file) == JsonLoadStr(file.title)
MessagesIn(file) == JsonLoadMsgs(file.messages)

(***************************************************************************)
(* C15 as stated.  The title of every record auto-save writes is the       *)
(* first 40 characters of the first user message, trimmed, followed by the *)
(* one-character ellipsis if the message is longer, or "New Chat" if there *)
(* is no user message.                                                     *)
(***************************************************************************)
C15_TitleWithEllipsisChar ==
    [][\A c \in ConvIds :
          store'[c] # store[c] =>
              TitleIn(store'[c]) =
                  IF HasUser(MessagesIn(store'[c]))
                  THEN TitleWith(MessagesIn(store'[c]), <<EllipsisChar>>)
                  ELSE NewChatTitle]_vars

(***************************************************************************)
(* C15, amended.  The title of every record auto-save writes is the        *)
(* first 40 characters of the first user message, trimmed, followed by     *)
(* three full stops if the message is longer, or "New Chat" if there is no *)
(* user message (or nothing is left of the 40 characters after trimming).  *)
(***************************************************************************)
C15_TitleWithThreeDots ==
    [][\A c \in ConvIds :
          store'[c] # store[c] =>
              TitleIn(store'[c]) =
                  IF HasUser(MessagesIn(store'[c]))
                     /\ TitleWith(MessagesIn(store'[c]), <<".", ".", ".">>) # <<>>
                  THEN TitleWith(MessagesIn(store'[c]), <<".", ".", ".">>)
                  ELSE NewChatTitle]_vars

\* a conversation that began with the long message has been saved under
\* 39 characters and three full stops, and one that began with the short
\* message under that message
C15_Witness ==
    \E c, d \in ConvIds :
        /\ store[c].kind = "object"
        /\ HasUser(MessagesIn(store[c]))
        /\ FirstUser(MessagesIn(store[c])) = LongText
        /\ TitleIn(store[c]) = Repeat("a", 39) \o <<".", ".", ".">>
        /\ store[d].kind = "object"
        /\ HasUser(MessagesIn(store[d]))
        /\ FirstUser(MessagesIn(store[d])) = Hi
        /\ TitleIn(store[d]) = Hi

(***************************************************************************)
(* C16. Once a conversation has a title other than "New Chat", no step     *)
(* changes it: the title in the file of the conversation stays the same at *)
(* every later save, and so does the title in memory as long as that       *)
(* conversation is the current one.                                        *)
(***************************************************************************)
C16_TitleStable ==
    [][/\ \A c \in ConvIds :
             (store[c].kind = "object" /\ TitleIn(store[c]) # NewChatTitle) =>
                 /\ store'[c].kind = "object"
                 /\ TitleIn(store'[c]) = TitleIn(store[c])
       /\ (current_conversation_title # NewChatTitle
           /\ current_conversation_id' = current_conversation_id) =>
              current_conversation_title' = current_conversation_title]_vars

\* a conversation titled after its first, long message has been saved again
\* after a second turn, under the same title
C16_Witness ==
    /\ store[1].kind = "object"
    /\ Len(ContentsOf(MessagesIn(store[1]), {"user"})) = 2
    /\ TitleIn(store[1]) = Repeat("a", 39) \o <<".", ".", ".">>
    /\ current_conversation_title = TitleIn(store[1])

(***************************************************************************)
(* C21. Whatever files the directory holds, files that are not JSON and    *)
(* files that are JSON but not a conversation record included,             *)
(* list_conversations does not raise, passes over those files, and returns *)
(* the records of all the other files.                                     *)
(***************************************************************************)
C21_ListSkipsCorruptRecords ==
    (ret.fn = "list_conversations"
     /\ \E c \in Files(store) : store[c].kind \in {"garbage", "array"}) =>
        /\ ret.raised = ""
        /\ {ret.value[i] : i \in DOMAIN ret.value} =
              {JsonLoad(store[c]) : c \in Readable(store)}

(***************************************************************************)
(* Vocabulary of the persistence properties.                               *)
(***************************************************************************)
\* the step runs the slot of a terminal signal in the GUI thread
HandlesTerminal == Len(handledLog') = Len(handledLog) + 1

\* the conversation files the step writes
Written == {c \in ConvIds : store'[c] # store[c]}

\* a turn has been started and the GUI has not yet handled its terminal signal
Outstanding(t) == Started(t) /\ ~TerminalObserved(t)

(***************************************************************************)
(* C22. A conversation file is written only by the step in which the GUI   *)
(* handles a terminal signal: no step writes one while a turn is still     *)
(* outstanding after it, and the handling of each terminal signal,         *)
(* finished or error, writes exactly one file, the one of the current      *)
(* conversation id, holding the current title and the current messages.    *)
(***************************************************************************)
C22_SaveOnlyAtTerminal ==
    [][/\ Written # {} => HandlesTerminal
       /\ (\E t \in Turns : Outstanding(t) /\ Outstanding(t)') => Written = {}
       /\ HandlesTerminal =>
             /\ Written = {current_conversation_id'}
             /\ store'[current_conversation_id'].kind = "object"
             /\ TitleIn(store'[current_conversation_id']) =
                   current_conversation_title'
             /\ MessagesIn(store'[current_conversation_id']) = heap[messages]
             /\ heap' = heap /\ messages' = messages]_vars

\* the second turn of a conversation is streaming, its user message is in the
\* list, and the file still holds the conversation as the first turn's
\* terminal signal left it
C22_Witness ==
    /\ workers[2].pc = "stream"
    /\ produced[2] # <<>>
    /\ workers[2].messages_list = messages
    /\ current_conversation_id = 1
    /\ Len(heap[messages]) = 4
    /\ store[1].kind = "object"
    /\ MessagesIn(store[1]) = SubSeq(heap[messages], 1, 3)
    /\ handledLog = <<[turn |-> 1, sig |-> "error"]>>

(***************************************************************************)
(* Vocabulary of the request properties.                                   *)
(***************************************************************************)
\* the worker of turn t has built its request
RequestBuilt(t) == workers[t].pc \in {"call", "stream", "finalize", "failed", "done"}

\* the conversation as the request of turn t was built from it: the list as
\* it was at send_message and the user message of the turn
ConversationAt(t) == Append(base[t], UserMsg(t))

\* the messages of the given roles, in their order
OfRoles(msgs, roles) == SelectSeq(msgs, LAMBDA m : m.role \in roles)

\* the contents of the system messages, in their order
SystemTexts(msgs) ==
    [i \in 1..Len(OfRoles(msgs, {"system"})) |->
        OfRoles(msgs, {"system"})[i].content]

RECURSIVE SeparatedBy(_, _)
\* the texts in order, with the separator between each two
SeparatedBy(parts, sep) ==
    IF Len(parts) = 0 THEN <<>>
    ELSE IF Len(parts) = 1 THEN parts[1]
    ELSE parts[1] \o sep \o SeparatedBy(Tail(parts), sep)

\* the history of the request is the user and assistant messages of the
\* conversation in their order, the last one the user message of the turn
HistoryAsClaimed(t) ==
    LET history == workers[t].kwargs.messages
    IN  /\ history = OfRoles(ConversationAt(t), {"user", "assistant"})
        /\ history[Len(history)] = UserMsg(t)
        /\ \A i \in DOMAIN history : history[i].role # "system"

(***************************************************************************)
(* C23 as stated.  The request of a turn has as system prompt the contents *)
(* of the system messages of the conversation put one after the other, in  *)
(* order (the default prompt if there is no system message), and as        *)
(* history the user and assistant messages in order, ending with the user  *)
(* message of the turn, no system message among them.                      *)
(***************************************************************************)
C23_SystemIsConcatenation ==
    \A t \in Turns :
        RequestBuilt(t) =>
            /\ workers[t].kwargs.system =
                  IF SystemTexts(ConversationAt(t)) = <<>> THEN SYSTEM_PROMPT
                  ELSE Flatten(SystemTexts(ConversationAt(t)))
            /\ HistoryAsClaimed(t)

(***************************************************************************)
(* C23, amended.  The system prompt of the request is the contents of the  *)
(* system messages in order with a newline between each two, or the        *)
(* default prompt if that text is empty (no system message, or none with   *)
(* any content); the history is as stated.                                 *)
(***************************************************************************)
C23_SystemIsJoinedByNewlines ==
    \A t \in Turns :
        RequestBuilt(t) =>
            /\ workers[t].kwargs.system =
                  IF SeparatedBy(SystemTexts(ConversationAt(t)), <<"\n">>) = <<>>
                  THEN SYSTEM_PROMPT
                  ELSE SeparatedBy(SystemTexts(ConversationAt(t)), <<"\n">>)
            /\ HistoryAsClaimed(t)

\* a turn on the loaded conversation with the system messages "A" and "B":
\* the request has the system prompt "A\nB" and the history q, r, hi
C23_Witness ==
    \E t \in Turns :
        /\ workers[t].pc = "call"
        /\ base[t] = TwoSystemsConv.messages
        /\ workers[t].kwargs.system = <<"A", "\n", "B">>
        /\ workers[t].kwargs.messages =
              <<Msg("user", <<"q">>), Msg("assistant", <<"r">>), Msg("user", Hi)>>

(***************************************************************************)
(* C24. The files and the live lists share nothing.  A step that appends   *)
(* to a live list leaves every file as it is, so that the file of a        *)
(* conversation changes only at its next save; loading a conversation      *)
(* makes a new list that holds the messages of the file and leaves the     *)
(* file and every other live list as they are, so that what is appended to *)
(* the loaded list afterwards reaches the file only at the next save.      *)
(***************************************************************************)
C24_StoreHoldsCopies ==
    [][/\ heap' # heap => store' = store
       /\ (nLists' = nLists + 1 /\ nIds' = nIds) =>
             /\ messages' = nLists'
             /\ heap'[messages'] = MessagesIn(store[current_conversation_id'])
             /\ store' = store
             /\ \A l \in 1..nLists : heap'[l] = heap[l]]_vars

\* the conversation of the first turn was saved and loaded again, and the
\* second turn has appended its user message to the loaded list: the file
\* still holds the three messages of the save
C24_Witness ==
    /\ messages = 2
    /\ current_conversation_id = 1
    /\ workers[2].pc = "stream"
    /\ workers[2].messages_list = 2
    /\ Len(heap[2]) = 4
    /\ Len(MessagesIn(store[1])) = 3
    /\ MessagesIn(store[1]) = SubSeq(heap[2], 1, 3)
    /\ heap[1] = MessagesIn(store[1])

(***************************************************************************)
(* C25. When the GUI handles the terminal signal of a turn after the user  *)
(* has gone over to another conversation (New Chat, Ctrl+N, or an item of  *)
(* the sidebar) while the turn was in flight, the file of the conversation *)
(* the turn was started on holds, from that step on, the user message and  *)
(* the assistant message of the turn, and the file of the conversation     *)
(* that is now the current one does not.                                   *)
(***************************************************************************)
C25_TurnSavedWithItsConversation ==
    [][\A t \in Turns :
          (HandlesTerminal /\ Head(queue).turn = t
           /\ current_conversation_id # startedOn[t]) =>
              /\ store'[startedOn[t]].kind = "object"
              /\ IsPrefix(ListOf(t), MessagesIn(store'[startedOn[t]]))
              /\ ~IsInfix(Growth(t),
                          MessagesIn(store'[current_conversation_id']))]_vars

(***************************************************************************)
(* Vocabulary of the snapshot property.                                    *)
(***************************************************************************)
\* the sampling parameters a request has under a complete configuration: the
\* value of the mode's parameter, and the other parameter left out
SamplingUnder(config) ==
    [temperature |-> IF config.mode = "temperature" /\ config.temperature # None
                     THEN config.temperature ELSE Absent,
     top_p |-> IF config.mode = "top_p" /\ config.top_p # None
               THEN config.top_p ELSE Absent]

\* the sampling parameters of a request
SamplingIn(kwargs) == [temperature |-> kwargs.temperature, top_p |-> kwargs.top_p]

(***************************************************************************)
(* C26. The sampling parameters of the request of a turn are those of one  *)
(* complete configuration that was in force while the request was built:   *)
(* the one in force throughout, or the one before or the one after an      *)
(* Apply that ran meanwhile; never the mode of one with the value of       *)
(* another.                                                                *)
(***************************************************************************)
C26_RequestFromOneSnapshot ==
    \A t \in Turns :
        RequestBuilt(t) =>
            \E config \in workers[t].snapshots :
                SamplingIn(workers[t].kwargs) = SamplingUnder(config)

(***************************************************************************)
(* Vocabulary of the alternation property.                                 *)
(***************************************************************************)
\* the user and assistant messages of a list, in their order
Transcript(l) == OfRoles(heap[l], {"user", "assistant"})

\* user, assistant, user, assistant, ...
Alternates(h) ==
    \A i \in DOMAIN h : h[i].role = IF i % 2 = 1 THEN "user" ELSE "assistant"

\* a worker is between its append of the user message and its append of the
\* assistant message to the list
TurnOpenOn(l) ==
    \E t \in Turns :
        /\ workers[t].messages_list = l
        /\ workers[t].pc \in {"call", "stream", "finalize", "failed"}

(***************************************************************************)
(* C27. In every list of the session the user and assistant messages       *)
(* alternate, user first; while no turn is open on the list they end with  *)
(* an assistant message, and while one is open with the user message of    *)
(* the turn; the history of every request alternates, begins with a user   *)
(* message and ends with the user message of its turn.                     *)
(***************************************************************************)
C27_RolesAlternate ==
    /\ \A l \in 1..nLists :
          /\ Alternates(Transcript(l))
          /\ Len(Transcript(l)) % 2 = IF TurnOpenOn(l) THEN 1 ELSE 0
    /\ \A t \in Turns :
          RequestBuilt(t) =>
              LET history == workers[t].kwargs.messages
              IN  /\ Alternates(history)
                  /\ Len(history) % 2 = 1
                  /\ history[Len(history)] = UserMsg(t)

\* two turns have been completed on one list, the first with an error and
\* the second with a response: the list holds user, assistant, user,
\* assistant, and the second request held user, assistant, user
C27_Witness ==
    /\ handledLog = <<[turn |-> 1, sig |-> "error"],
                      [turn |-> 2, sig |-> "finished"]>>
    /\ nLists = 1
    /\ Len(Transcript(1)) = 4
    /\ Len(workers[2].kwargs.messages) = 3
    /\ workers[2].kwargs.messages[2].role = "assistant"

====
